---- MODULE Spec2Model ----
(***************************************************************************)
(* gophertags: fuzzy message detection tags over Ristretto255 (tags.go).   *)
(*                                                                         *)
(* The prime-order group is modelled by a cyclic group of small prime      *)
(* order GroupOrder: an element k*B is represented by k, a scalar by its   *)
(* residue.  Scalars and elements are heap objects reached through         *)
(* pointers, as in the Go code ([]*r255.Scalar, []*r255.Element).          *)
(* A big.Int used as a bit vector is the set of its set bit indices.       *)
(***************************************************************************)
EXTENDS Integers, Sequences, FiniteSets, TLC

VARIABLES heap, key, pub, det, flag, out, taken

vars == <<heap, key, pub, det, flag, out, taken>>

(***************************************************************************)
(* Bounds of the model.                                                    *)
(***************************************************************************)
\* index into OrderTable of the order of the model group
OrderIdx == 2
\* largest gamma (and n) a call is made with
MaxGamma == 2
\* number of writes through the secret key's pointers after keys were derived
MaxScribble == 1
\* modulus of the model digests
DigestMod == 251

OrderTable == <<3, 5, 7, 11>>
GroupOrder == OrderTable[OrderIdx]

Scalars == 0..(GroupOrder - 1)
Elements == 0..(GroupOrder - 1)

(***************************************************************************)
(* Program constants.                                                      *)
(***************************************************************************)
\* bits.UintSize, the width of a big.Word
UintSize == 64
\* length of the canonical encoding appended by Encode
EncodingLen == 32

Max(S) == CHOOSE m \in S : \A k \in S : k <= m

RECURSIVE Pow2(_)
Pow2(n) == IF n = 0 THEN 1 ELSE 2 * Pow2(n - 1)

Zeros(n) == [i \in 1..n |-> 0]

(***************************************************************************)
(* ristretto255 as used by tags.go.                                        *)
(***************************************************************************)
\* r255.NewElement(): the identity; r255.NewScalar(): zero
NewElement == 0
NewScalar == 0
\* r255.NewElement().Base()
Base == 1

\* FromUniformBytes: a wide integer reduced modulo the group order
FromUniformBytes(wide) == wide % GroupOrder

\* ScalarBaseMult(s) = s*B, ScalarMult(s, e) = s*e
ScalarBaseMult(s) == (s * Base) % GroupOrder
ScalarMult(s, e) == (s * e) % GroupOrder

\* MultiScalarMult(scalars, elements) = sum scalars[i]*elements[i]
MultiScalarMult(scalars, elements) ==
    (scalars[1] * elements[1] + scalars[2] * elements[2]) % GroupOrder

Subtract(a, b) == (a - b + GroupOrder) % GroupOrder
Multiply(a, b) == (a * b) % GroupOrder

RECURSIVE PowMod(_, _)
PowMod(s, e) == IF e = 0 THEN 1 % GroupOrder ELSE (s * PowMod(s, e - 1)) % GroupOrder

\* Invert(s) = s^(l-2): the inverse of s, and 0 for s = 0
Invert(s) == PowMod(s, GroupOrder - 2)

\* x.Encode(b): appends the canonical 32-byte little-endian encoding of x to b
Canonical(x) == <<x>> \o Zeros(EncodingLen - 1)
\* (variant: the encoding is put in front of b)
EncodePrepend(x, b) == Canonical(x) \o b
Encode(x, b) == b \o Canonical(x)

\* x.Decode(bytes): sets the receiver (a fresh identity/zero object) to the
\* decoded value; on a non-canonical input the receiver keeps its value
Decode(bytes) ==
    IF /\ Len(bytes) = EncodingLen
       /\ bytes[1] < GroupOrder
       /\ \A i \in 2..EncodingLen : bytes[i] = 0
    THEN bytes[1]
    ELSE 0

(***************************************************************************)
(* SHA3: a deterministic, order-sensitive function of the byte string.     *)
(***************************************************************************)
RECURSIVE Absorb(_, _, _, _, _)
Absorb(h, mult, bytes, lo, hi) ==
    IF lo > hi THEN h
    ELSE IF lo = hi THEN (h * mult + bytes[lo] + lo) % DigestMod
    ELSE LET mid == (lo + hi) \div 2
             left == Absorb(h, mult, bytes, lo, mid)
         IN  IF left >= 0 THEN Absorb(left, mult, bytes, mid + 1, hi) ELSE left

\* sha3.New256() ... Sum(nil)
Sha3_256(bytes) == Absorb(17, 7, bytes, 1, Len(bytes))
\* sha3.Sum512(bytes)
Sha3_512(bytes) == Absorb(101, 13, bytes, 1, Len(bytes))

(***************************************************************************)
(* math/big as used by tags.go: a bit vector is the set of its set bits.   *)
(***************************************************************************)
BitLen(bitVec) == IF bitVec = {} THEN 0 ELSE Max(bitVec) + 1
Bit(bitVec, i) == IF i \in bitVec THEN 1 ELSE 0
SetBit(bitVec, i, b) == IF b = 1 THEN bitVec \cup {i} ELSE bitVec \ {i}

\* Bits(): the little-endian words of the absolute value, without leading
\* zero words; a word is the set of its set bit indices
Bits(bitVec) ==
    [j \in 1..((BitLen(bitVec) + UintSize - 1) \div UintSize) |->
        {b - (j - 1) * UintSize : b \in {k \in bitVec :
            /\ k >= (j - 1) * UintSize
            /\ k < j * UintSize}}]

\* byte(word): the low eight bits
RECURSIVE SumPow2(_)
SumPow2(S) == IF S = {} THEN 0 ELSE LET k == CHOOSE k \in S : TRUE
                                    IN  Pow2(k) + SumPow2(S \ {k})
ByteOf(word) == SumPow2({k \in word : k < 8})
\* word >>= 8
Shr8(word) == {k - 8 : k \in {j \in word : j >= 8}}

Xor(a, b) == (a + b) % 2

(***************************************************************************)
(* Heap objects.  An address names the allocation site and the index of    *)
(* the slice slot the object was allocated for.                            *)
(***************************************************************************)
None == [none |-> TRUE]

Addr(site, i) == <<site, i>>

\* the heap h with the objects objs (address -> value) allocated or rewritten
Alloc(h, objs) ==
    [a \in (DOMAIN h) \cup (DOMAIN objs) |->
        IF a \in DOMAIN objs THEN objs[a] ELSE h[a]]

\* the values a slice of pointers points at
Deref(h, ptrs) == [i \in 1..Len(ptrs) |-> h[ptrs[i]]]

(***************************************************************************)
(* hashG3ToBit and hashGVecToScalar.                                       *)
(***************************************************************************)
hashG3ToBit(rB, rH, zB) ==
    LET d1 == Encode(rB, <<>>)
        d2 == d1 \o Encode(rH, <<>>)
        d3 == d2 \o Encode(zB, <<>>)
    IN  Sha3_256(d3) % 2

\* cap(byteRepr) after make([]byte, 0, bitVec.BitLen()+7/8)
PackCap(bitVec) == BitLen(bitVec) + (7 \div 8)

\* the inner loop: for i := 0; i < bits.UintSize; i += 8
RECURSIVE PackWord(_, _, _, _)
PackWord(byteRepr, word, i, capacity) ==
    IF i >= UintSize \/ Len(byteRepr) >= capacity
    THEN byteRepr
    ELSE PackWord(Append(byteRepr, ByteOf(word)), Shr8(word), i + 8, capacity)

\* the outer loop: for _, word := range bitVec.Bits()
RECURSIVE PackWords(_, _, _, _)
PackWords(byteRepr, words, j, capacity) ==
    IF j > Len(words)
    THEN byteRepr
    ELSE PackWords(PackWord(byteRepr, words[j], 0, capacity), words, j + 1, capacity)

\* byteRepr as it stands when the loops are done
PackBits(bitVec) == PackWords(<<>>, Bits(bitVec), 1, PackCap(bitVec))

\* the argument of sha3.Sum512: u.Encode(byteRepr)
hashGVecToScalarInput(u, bitVec) == Encode(u, PackBits(bitVec))

hashGVecToScalar(u, bitVec) ==
    FromUniformBytes(Sha3_512(hashGVecToScalarInput(u, bitVec)))

(***************************************************************************)
(* NewSecretKey, PublicKey, ExtractDetectionKey.  Each yields              *)
(* [panic, heap, ret]: whether the call panicked, the heap it leaves and   *)
(* the object it returns.                                                  *)
(***************************************************************************)
\* coins[i]: the 64 uniform bytes read in iteration i, as a wide integer;
\* entropy: whether rand.Read delivers
NewSecretKey(h, gamma, coins, entropy) ==
    IF gamma < 0
    THEN [panic |-> TRUE, heap |-> h, ret |-> None]
    ELSE IF gamma > 0 /\ ~entropy
    THEN [panic |-> TRUE, heap |-> h, ret |-> None]
    ELSE LET skv == [i \in 1..gamma |-> FromUniformBytes(coins[i])]
             objs == [a \in {Addr("sk", i) : i \in 1..gamma}
                            \cup {Addr("pk", i) : i \in 1..gamma} |->
                         IF a[1] = "sk" THEN skv[a[2]]
                                        ELSE ScalarBaseMult(skv[a[2]])]
         IN  [panic |-> FALSE,
              heap  |-> Alloc(h, objs),
              ret   |-> [sk |-> [i \in 1..gamma |-> Addr("sk", i)],
                         pk |-> [i \in 1..gamma |-> Addr("pk", i)]]]

\* (variant: the slice of pointers is copied, not the elements)
PublicKeyShallow(h, sk) ==
    [panic |-> FALSE, heap |-> h, ret |-> [internal |-> sk.pk]]

PublicKey(h, sk) ==
    LET n == Len(sk.pk)
        objs == [a \in {Addr("pkCopy", i) : i \in 1..n} |->
                    Decode(Encode(h[sk.pk[a[2]]], <<>>))]
    IN  [panic |-> FALSE,
         heap  |-> Alloc(h, objs),
         ret   |-> [internal |-> [i \in 1..n |-> Addr("pkCopy", i)]]]

ExtractDetectionKey(h, sk, n) ==
    IF n < 0 \/ n > Len(sk.sk)
    THEN [panic |-> TRUE, heap |-> h, ret |-> None]
    ELSE LET objs == [a \in {Addr("secrets", i) : i \in 1..n} |->
                         Decode(Encode(h[sk.sk[a[2]]], <<>>))]
         IN  [panic |-> FALSE,
              heap  |-> Alloc(h, objs),
              ret   |-> [internal |-> [i \in 1..n |-> Addr("secrets", i)]]]

(***************************************************************************)
(* The two hashes, tabulated once over the values of the model (@@ makes    *)
(* the table an explicit function, so that it is computed once).           *)
(***************************************************************************)
BitVecs == SUBSET (0..(MaxGamma - 1))

hashG3ToBitTable ==
    [rB \in Elements, rH \in Elements, zB \in Elements |-> hashG3ToBit(rB, rH, zB)] @@ <<>>

hashGVecToScalarTable ==
    [u \in Elements, bitVec \in BitVecs |-> hashGVecToScalar(u, bitVec)] @@ <<>>

(***************************************************************************)
(* GenerateFlag.                                                           *)
(***************************************************************************)
\* for i, H := range pk.internal (i is the 0-based slot, H = internal[i+1])
RECURSIVE GenerateLoop(_, _, _, _, _, _, _)
GenerateLoop(h, internal, r, u, w, i, bitVec) ==
    IF i >= Len(internal)
    THEN bitVec
    ELSE LET rH == ScalarMult(r, h[internal[i + 1]])
             c == Xor(hashG3ToBitTable[u, rH, w], 1)
         IN  GenerateLoop(h, internal, r, u, w, i + 1, SetBit(bitVec, i, c))

\* coinR, coinZ: uniformBytes[0:64] and uniformBytes[64:128] as wide integers
GenerateFlag(h, pk, coinR, coinZ, entropy) ==
    IF ~entropy
    THEN [panic |-> TRUE, ret |-> None]
    ELSE LET r == FromUniformBytes(coinR)
             z == FromUniformBytes(coinZ)
             u == ScalarBaseMult(r)
             w == ScalarBaseMult(z)
             bitVec == GenerateLoop(h, pk.internal, r, u, w, 0, {})
             m == hashGVecToScalarTable[u, bitVec]
             y == Multiply(Invert(r), Subtract(z, m))
         IN  [panic |-> FALSE,
              ret |-> [u |-> u, y |-> y, ciphertexts |-> bitVec]]

(***************************************************************************)
(* Test.  The run is [ret, slots, bits]: the value returned, the slots     *)
(* for which ScalarMult and hashG3ToBit were evaluated, in order, and the  *)
(* bit b computed for each.                                                *)
(***************************************************************************)
\* (variant: the loop stops at the first slot whose bit is 0)
RECURSIVE TestLoopShortCircuit(_, _, _, _, _, _, _, _)
TestLoopShortCircuit(h, internal, f, w, i, pass, slots, bits) ==
    IF i >= Len(internal) \/ pass = 0
    THEN [pass |-> pass, slots |-> slots, bits |-> bits]
    ELSE LET xU == ScalarMult(h[internal[i + 1]], f.u)
             k == hashG3ToBitTable[f.u, xU, w]
             b == Xor(k, Bit(f.ciphertexts, i))
         IN  TestLoopShortCircuit(h, internal, f, w, i + 1,
                                  IF pass = 1 /\ b = 1 THEN 1 ELSE 0,
                                  Append(slots, i), Append(bits, b))

\* (variant: pass = b, the accumulator keeps the last bit only)
RECURSIVE TestLoopLastBit(_, _, _, _, _, _, _, _)
TestLoopLastBit(h, internal, f, w, i, pass, slots, bits) ==
    IF i >= Len(internal)
    THEN [pass |-> pass, slots |-> slots, bits |-> bits]
    ELSE LET xU == ScalarMult(h[internal[i + 1]], f.u)
             k == hashG3ToBitTable[f.u, xU, w]
             b == Xor(k, Bit(f.ciphertexts, i))
         IN  TestLoopLastBit(h, internal, f, w, i + 1, b,
                             Append(slots, i), Append(bits, b))

\* for i, x_i := range dk.internal
RECURSIVE TestLoop(_, _, _, _, _, _, _, _)
TestLoop(h, internal, f, w, i, pass, slots, bits) ==
    IF i >= Len(internal)
    THEN [pass |-> pass, slots |-> slots, bits |-> bits]
    ELSE LET xU == ScalarMult(h[internal[i + 1]], f.u)
             k == hashG3ToBitTable[f.u, xU, w]
             b == Xor(k, Bit(f.ciphertexts, i))
         IN  TestLoop(h, internal, f, w, i + 1, IF pass = 1 /\ b = 1 THEN 1 ELSE 0,
                      Append(slots, i), Append(bits, b))

\* (variant: the two comparisons are joined by && instead of ||)
IsUniversalBoth(f) == f.u = NewElement /\ f.y = NewScalar

\* the universal tag check of Test
IsUniversal(f) == f.u = NewElement \/ f.y = NewScalar

\* (variant: the accumulator starts at 0)
TestPassZero(h, dk, f) ==
    IF IsUniversal(f)
    THEN [ret |-> FALSE, slots |-> <<>>, bits |-> <<>>]
    ELSE LET m == hashGVecToScalarTable[f.u, f.ciphertexts]
             w == MultiScalarMult(<<m, f.y>>, <<Base, f.u>>)
             run == TestLoop(h, dk.internal, f, w, 0, 0, <<>>, <<>>)
         IN  [ret |-> (run.pass = 1), slots |-> run.slots, bits |-> run.bits]

Test(h, dk, f) ==
    IF IsUniversal(f)
    THEN [ret |-> FALSE, slots |-> <<>>, bits |-> <<>>]
    ELSE LET m == hashGVecToScalarTable[f.u, f.ciphertexts]
             w == MultiScalarMult(<<m, f.y>>, <<Base, f.u>>)
             run == TestLoop(h, dk.internal, f, w, 0, 1, <<>>, <<>>)
         IN  [ret |-> (run.pass = 1), slots |-> run.slots, bits |-> run.bits]

(***************************************************************************)
(* The callers.  A program makes a secret key, derives the public key and  *)
(* then a detection key from it, obtains a flag (from GenerateFlag, or     *)
(* built field by field as tags_test.go does) and tests it, in this order. *)
(* A panic ends the program.                                               *)
(***************************************************************************)
\* the 64 uniform bytes of one draw, as an integer wider than the order
UniformWords == 0..(2 * GroupOrder - 1)

NoCall == [op |-> "none", panic |-> FALSE]

Panicked == out.panic

Init ==
    /\ heap = <<>>
    /\ key = None
    /\ pub = None
    /\ det = None
    /\ flag = None
    /\ out = NoCall
    /\ taken = [pub |-> <<>>, det |-> <<>>, writes |-> 0]

CallNewSecretKey ==
    /\ ~Panicked
    /\ key = None
    /\ \E gamma \in (-1)..MaxGamma, entropy \in BOOLEAN :
         \E coins \in [1..(IF gamma < 0 THEN 0 ELSE gamma) -> UniformWords] :
            LET r == NewSecretKey(heap, gamma, coins, entropy)
            IN  /\ heap' = r.heap
                /\ key' = r.ret
                /\ out' = [op |-> "NewSecretKey", panic |-> r.panic, arg |-> gamma]
    /\ UNCHANGED <<pub, det, flag, taken>>

CallPublicKey ==
    /\ ~Panicked
    /\ key # None
    /\ pub = None
    /\ LET r == PublicKey(heap, key)
       IN  /\ heap' = r.heap
           /\ pub' = r.ret
           /\ out' = [op |-> "PublicKey", panic |-> r.panic]
           /\ taken' = [taken EXCEPT !.pub = Deref(heap, key.pk)]
    /\ UNCHANGED <<key, det, flag>>

CallExtractDetectionKey ==
    /\ ~Panicked
    /\ key # None
    /\ pub # None
    /\ det = None
    /\ \E n \in (-1)..(MaxGamma + 1) :
         LET r == ExtractDetectionKey(heap, key, n)
         IN  /\ heap' = r.heap
             /\ det' = r.ret
             /\ out' = [op |-> "ExtractDetectionKey", panic |-> r.panic, arg |-> n]
             /\ taken' = [taken EXCEPT !.det =
                             IF r.panic THEN <<>> ELSE SubSeq(Deref(heap, key.sk), 1, n)]
    /\ UNCHANGED <<key, pub, flag>>

CallGenerateFlag ==
    /\ ~Panicked
    /\ pub # None
    /\ det # None
    /\ flag = None
    /\ \E coinR \in UniformWords, coinZ \in UniformWords, entropy \in BOOLEAN :
         LET r == GenerateFlag(heap, pub, coinR, coinZ, entropy)
         IN  /\ flag' = IF r.panic THEN None
                        ELSE [u |-> r.ret.u, y |-> r.ret.y,
                              ciphertexts |-> r.ret.ciphertexts, generated |-> TRUE]
             /\ out' = [op |-> "GenerateFlag", panic |-> r.panic]
    /\ UNCHANGED <<heap, key, pub, det, taken>>

\* &Flag{u: ..., y: ..., ciphertexts: ...}
FlagLiteral ==
    /\ ~Panicked
    /\ det # None
    /\ flag = None
    /\ \E u \in Elements, y \in Scalars, c \in BitVecs :
         flag' = [u |-> u, y |-> y, ciphertexts |-> c, generated |-> FALSE]
    /\ out' = [op |-> "Flag", panic |-> FALSE]
    /\ UNCHANGED <<heap, key, pub, det, taken>>

CallTest ==
    /\ ~Panicked
    /\ det # None
    /\ flag # None
    /\ out.op # "Test"
    /\ LET r == Test(heap, det, flag)
       IN  out' = [op |-> "Test", panic |-> FALSE, ret |-> r.ret,
                   slots |-> r.slots, bits |-> r.bits]
    /\ UNCHANGED <<heap, key, pub, det, flag, taken>>

Next ==
    \/ CallNewSecretKey
    \/ CallPublicKey
    \/ CallExtractDetectionKey
    \/ CallGenerateFlag
    \/ FlagLiteral
    \/ CallTest

Spec == Init /\ [][Next]_vars

(***************************************************************************)
(* A later write through one of the secret key's pointers: the scalar or   *)
(* element it points at is zeroed or has one added to it in place (r255    *)
(* objects are mutable: GenerateFlag itself "smashes z").                  *)
(***************************************************************************)
Range(f) == {f[i] : i \in DOMAIN f}

Scribble ==
    /\ ~Panicked
    /\ pub # None
    /\ taken.writes < MaxScribble
    /\ \E a \in Range(key.sk) \cup Range(key.pk) :
         \E v \in {0, (heap[a] + 1) % GroupOrder} :
            heap' = [heap EXCEPT ![a] = v]
    /\ taken' = [taken EXCEPT !.writes = @ + 1]
    /\ out' = [op |-> "write", panic |-> FALSE]
    /\ UNCHANGED <<key, pub, det, flag>>

NextCopy ==
    \/ CallNewSecretKey
    \/ CallPublicKey
    \/ CallExtractDetectionKey
    \/ Scribble

SpecCopy == Init /\ [][NextCopy]_vars

(***************************************************************************)
(* hashGVecToScalar on its own, over bit vectors that reach into a second  *)
(* word.                                                                   *)
(***************************************************************************)
BitPositions == {0, 1, 7, 8, 9, 63, 64}

InitHash ==
    /\ heap = <<>>
    /\ key = None
    /\ pub = None
    /\ det = None
    /\ flag \in [u : Elements, y : {Base}, ciphertexts : SUBSET BitPositions,
                 generated : {FALSE}]
    /\ out = NoCall
    /\ taken = [pub |-> <<>>, det |-> <<>>, writes |-> 0]

CallHashGVecToScalar ==
    /\ out.op = "none"
    /\ out' = [op |-> "hashGVecToScalar", panic |-> FALSE,
               packed |-> PackBits(flag.ciphertexts),
               input |-> hashGVecToScalarInput(flag.u, flag.ciphertexts),
               ret |-> hashGVecToScalar(flag.u, flag.ciphertexts)]
    /\ UNCHANGED <<heap, key, pub, det, flag, taken>>

NextHash == CallHashGVecToScalar

SpecHash == InitHash /\ [][NextHash]_vars

(***************************************************************************)
(* Properties.                                                             *)
(***************************************************************************)
Tested == out.op = "Test"

\* the expected sequence 0, 1, ..., n-1 of slots
SlotsUpTo(n) == [i \in 1..n |-> i - 1]

\* C1 (as claimed): whenever a detection key with 1 <= n <= gamma scalars,
\* extracted from a secret key, tests a flag that GenerateFlag made for the
\* public key of the same secret key, Test returns true, whatever the coins.
C1_SelfConsistency ==
    (Tested /\ flag.generated /\ Len(det.internal) >= 1) => out.ret

\* What holds instead of C1: an honestly generated flag that is not itself a
\* universal tag (u = identity, from r = 0, or y = 0, from z = m) passes.
SelfConsistencyUnlessUniversal ==
    (Tested /\ flag.generated /\ flag.u # 0 /\ flag.y # 0) => out.ret

\* C2: Test returns false for every flag whose u is the identity or whose y
\* is zero, whatever the other field, the bit vector and the detection key.
C2_UniversalRejected ==
    (Tested /\ (flag.u = 0 \/ flag.y = 0)) => ~out.ret

C2_Witness ==
    /\ Tested
    /\ ~flag.generated
    /\ flag.u = 0
    /\ flag.y # 0
    /\ flag.ciphertexts = 0..(MaxGamma - 1)
    /\ Len(det.internal) >= 1

\* C3: when the detection key of length m accepts a flag, so does every
\* shorter detection key ExtractDetectionKey(n), n <= m, of the same secret key.
C3_PrefixMonotone ==
    (Tested /\ out.ret) =>
        \A n \in 0..Len(det.internal) :
            LET e == ExtractDetectionKey(heap, key, n)
            IN  ~e.panic /\ Test(e.heap, e.ret, flag).ret

C3_Witness ==
    /\ Tested
    /\ out.ret
    /\ ~flag.generated
    /\ Len(det.internal) = MaxGamma

\* C5 (as claimed): NewSecretKey(gamma) with gamma < 1, and
\* ExtractDetectionKey(n) with n < 0 or n > gamma, end in a panic and return
\* no key.
C5_InvalidRejected ==
    /\ (out.op = "NewSecretKey" /\ out.arg < 1) => (out.panic /\ key = None)
    /\ (out.op = "ExtractDetectionKey" /\ (out.arg < 0 \/ out.arg > Len(key.sk)))
          => (out.panic /\ det = None)

\* What holds instead of C5: a negative gamma, and n < 0 or n > gamma, panic;
\* gamma = 0 yields an empty secret key.
InvalidRejectedButZeroGamma ==
    /\ (out.op = "NewSecretKey" /\ out.arg < 0) => (out.panic /\ key = None)
    /\ (out.op = "NewSecretKey" /\ out.arg = 0) =>
          (~out.panic /\ key # None /\ key.sk = <<>> /\ key.pk = <<>>)
    /\ (out.op = "ExtractDetectionKey" /\ (out.arg < 0 \/ out.arg > Len(key.sk)))
          => (out.panic /\ det = None)

\* C9: on a flag that passes the universal tag check, Test evaluates the
\* slots 0..n-1 of the detection key in order, all of them, wherever the first
\* bit 0 occurs; bit i is hashG3ToBit(u, x_i*u, w) xor bit i of c with
\* w = m*B + y*u, and the result is the conjunction of the n bits.
C9_NoShortCircuit ==
    (Tested /\ flag.u # 0 /\ flag.y # 0) =>
        LET n == Len(det.internal)
            m == hashGVecToScalarTable[flag.u, flag.ciphertexts]
            w == (m + flag.y * flag.u) % GroupOrder
        IN  /\ out.slots = SlotsUpTo(n)
            /\ Len(out.bits) = n
            /\ \A i \in 1..n :
                 out.bits[i] =
                    (hashG3ToBitTable[flag.u, (heap[det.internal[i]] * flag.u) % GroupOrder, w]
                       + (IF (i - 1) \in flag.ciphertexts THEN 1 ELSE 0)) % 2
            /\ out.ret = (\A i \in 1..n : out.bits[i] = 1)

\* the first slot fails and the later slots are evaluated all the same
C9_Witness ==
    /\ Tested
    /\ flag.u # 0
    /\ flag.y # 0
    /\ Len(det.internal) = MaxGamma
    /\ out.bits[1] = 0
    /\ out.bits[MaxGamma] = 1
    /\ Len(out.slots) = MaxGamma

\* C10: ExtractDetectionKey(0) returns a detection key without scalars, and
\* that key accepts every flag with u # identity and y # 0, whatever the bit
\* vector and whoever the flag was made for.
C10_EmptyKeyMatchesAll ==
    /\ (out.op = "ExtractDetectionKey" /\ out.arg = 0) =>
          (~out.panic /\ det # None /\ det.internal = <<>>)
    /\ (Tested /\ Len(det.internal) = 0 /\ flag.u # 0 /\ flag.y # 0) => out.ret

C10_Witness ==
    /\ Tested
    /\ Len(det.internal) = 0
    /\ Len(key.sk) = MaxGamma
    /\ ~flag.generated
    /\ flag.ciphertexts # {}
    /\ out.ret

(***************************************************************************)
(* Properties of SpecCopy.                                                 *)
(***************************************************************************)
\* C4: the public key and the detection key share no object with the secret
\* key, and after later writes through the secret key's pointers they still
\* hold the values pk[0..gamma) and sk[0..n) had when they were derived.
C4_DerivedKeysIndependent ==
    /\ pub # None =>
          /\ Range(pub.internal) \cap (Range(key.sk) \cup Range(key.pk)) = {}
          /\ Deref(heap, pub.internal) = taken.pub
    /\ det # None =>
          /\ Range(det.internal) \cap (Range(key.sk) \cup Range(key.pk)) = {}
          /\ Deref(heap, det.internal) = taken.det

\* both derived keys exist and the secret key no longer holds what they hold
C4_Witness ==
    /\ taken.writes >= 1
    /\ pub # None
    /\ det # None
    /\ Len(det.internal) >= 1
    /\ \/ Deref(heap, key.pk) # taken.pub
       \/ SubSeq(Deref(heap, key.sk), 1, Len(det.internal)) # taken.det

(***************************************************************************)
(* Properties of SpecHash.                                                 *)
(***************************************************************************)
Hashed == out.op = "hashGVecToScalar"

\* bits 8j..8j+7 of bitVec as a byte
ByteAt(bitVec, j) == SumPow2({k - 8 * j : k \in {b \in bitVec : b >= 8 * j /\ b < 8 * j + 8}})

\* C6 (as claimed): the packed byte string has ceil(BitLen/8) bytes (none for
\* the zero vector), byte j holding bits 8j..8j+7.
C6_MinimalPacking ==
    Hashed =>
        /\ Len(out.packed) = (BitLen(flag.ciphertexts) + 7) \div 8
        /\ \A j \in 1..Len(out.packed) :
              out.packed[j] = ByteAt(flag.ciphertexts, j - 1)

\* What holds instead of C6: the loop appends min(BitLen, 8 * words) bytes,
\* which is never fewer than ceil(BitLen/8); the bytes are right and the
\* surplus ones are zero.
PackingAsCoded ==
    Hashed =>
        LET bl == BitLen(flag.ciphertexts)
            words == (bl + UintSize - 1) \div UintSize
            n == IF bl <= 8 * words THEN bl ELSE 8 * words
        IN  /\ Len(out.packed) = n
            /\ n >= (bl + 7) \div 8
            /\ \A j \in 1..n : out.packed[j] = ByteAt(flag.ciphertexts, j - 1)

\* C7 (as claimed): the hash input is the 32-byte encoding of u followed by the
\* packed bytes of c.
C7_ElementFirst ==
    Hashed => out.input = (<<flag.u>> \o Zeros(31)) \o out.packed

\* C7 (amended): the hash input is the packed bytes of c followed by the
\* 32-byte encoding of u.
C7_PackedFirst ==
    Hashed =>
        /\ Len(out.input) = Len(out.packed) + 32
        /\ SubSeq(out.input, 1, Len(out.packed)) = out.packed
        /\ SubSeq(out.input, Len(out.packed) + 1, Len(out.input)) = <<flag.u>> \o Zeros(31)

C7_Witness ==
    /\ Hashed
    /\ Len(out.packed) >= 2
    /\ flag.u # 0
    /\ out.packed[1] # flag.u
    /\ out.input[1] = out.packed[1]

====
